---- MODULE Spec2Model ----
(***************************************************************************)
(* Model of dedupe_external_contacts.py: load_contacts, the grouping by    *)
(* email and by account, choose_primary_contact's rule cascade, the merge  *)
(* plan of dedupe_contacts, its execution loop (backup, backup, merge) and *)
(* save_merge_report.                                                      *)
(*                                                                         *)
(* A Python str is modelled as the sequence of its characters, so that     *)
(* strip(), lower(), upper(), startswith(), `in` and int() are computed    *)
(* and not assumed.  A Python object is a record with an `oid` field: the  *)
(* identity of the ExternalContact object (the index of the row it was     *)
(* built from).                                                            *)
(***************************************************************************)
EXTENDS Integers, Sequences, FiniteSets, TLC

VARIABLES
    rows,           \* the csv.DictReader rows: a sequence of header -> str mappings
    dry_run,        \* args.dry_run
    pc,             \* position in main(): "load", "dedupe", "exec", "done", "crashed"
    contacts,       \* the list load_contacts returned
    errors,         \* indices of the rows whose parse error was logged
    merge_actions,  \* the merge plan of dedupe_contacts: pairs <<primary, duplicate>>
    pair_idx,       \* the pair the execution loop is at
    step,           \* position inside the loop body: "primary", "duplicate", "merge"
    calls,          \* the requests made to the DevRev API, in order
    report,         \* the JSON report written by save_merge_report, or NoReport
    prev            \* what an earlier run of main() on the same CSV produced, or NoRun

vars == <<rows, dry_run, pc, contacts, errors, merge_actions, pair_idx, step,
          calls, report, prev>>

----------------------------------------------------------------------------
(* Python str operations on character sequences.                           *)

Whitespace == {" ", "\t", "\n", "\r"}

RECURSIVE LStrip(_)
LStrip(s) == IF s # <<>> /\ Head(s) \in Whitespace THEN LStrip(Tail(s)) ELSE s

RECURSIVE RStrip(_)
RStrip(s) ==
    IF s # <<>> /\ s[Len(s)] \in Whitespace
    THEN RStrip(SubSeq(s, 1, Len(s) - 1))
    ELSE s

\* str.strip()
Strip(s) == RStrip(LStrip(s))

UpperLetters == <<"A","B","C","D","E","F","G","H","I","J","K","L","M",
                  "N","O","P","Q","R","S","T","U","V","W","X","Y","Z">>
LowerLetters == <<"a","b","c","d","e","f","g","h","i","j","k","l","m",
                  "n","o","p","q","r","s","t","u","v","w","x","y","z">>

LowerOf == [c \in {UpperLetters[i] : i \in 1..Len(UpperLetters)} |->
              LowerLetters[CHOOSE i \in 1..Len(UpperLetters) : UpperLetters[i] = c]]
UpperOf == [c \in {LowerLetters[i] : i \in 1..Len(LowerLetters)} |->
              UpperLetters[CHOOSE i \in 1..Len(LowerLetters) : LowerLetters[i] = c]]

UpperSet == DOMAIN LowerOf
LowerSet == DOMAIN UpperOf

\* str.lower()
Lower(s) == [i \in 1..Len(s) |-> IF s[i] \in UpperSet THEN LowerOf[s[i]] ELSE s[i]]

\* str.upper()
Upper(s) == [i \in 1..Len(s) |-> IF s[i] \in LowerSet THEN UpperOf[s[i]] ELSE s[i]]

\* s.startswith(p)
StartsWith(s, p) == Len(s) >= Len(p) /\ SubSeq(s, 1, Len(p)) = p

\* p in s
Contains(s, p) == \E i \in 0..(Len(s) - Len(p)) : SubSeq(s, i + 1, i + Len(p)) = p

DigitValue == [c \in {"0","1","2","3","4","5","6","7","8","9"} |->
                 CASE c = "0" -> 0 [] c = "1" -> 1 [] c = "2" -> 2 [] c = "3" -> 3
                   [] c = "4" -> 4 [] c = "5" -> 5 [] c = "6" -> 6 [] c = "7" -> 7
                   [] c = "8" -> 8 [] c = "9" -> 9]

RECURSIVE DigitsValue(_, _)
DigitsValue(s, acc) ==
    IF s = <<>> THEN acc
    ELSE IF Head(s) = "_" THEN DigitsValue(Tail(s), acc)
    ELSE DigitsValue(Tail(s), 10 * acc + DigitValue[Head(s)])

\* int(text): ok is FALSE where Python raises ValueError.  Python accepts
\* surrounding whitespace, one sign, decimal digits, single underscores
\* between digits.
python_int(text) ==
    LET s    == Strip(text)
        sign == s # <<>> /\ Head(s) \in {"+", "-"}
        body == IF sign THEN Tail(s) ELSE s
        n    == Len(body)
        wellformed ==
            /\ n > 0
            /\ body[1] \in DOMAIN DigitValue
            /\ body[n] \in DOMAIN DigitValue
            /\ \A i \in 1..n : body[i] \in DOMAIN DigitValue \/ body[i] = "_"
            /\ \A i \in 1..(n - 1) : ~(body[i] = "_" /\ body[i + 1] = "_")
        magnitude == DigitsValue(body, 0)
    IN  IF wellformed
        THEN [ok |-> TRUE,
              value |-> IF sign /\ Head(s) = "-" THEN 0 - magnitude ELSE magnitude]
        ELSE [ok |-> FALSE, value |-> 0]

----------------------------------------------------------------------------
(* String literals of the program.                                         *)

S_empty    == <<>>
S_zero     == <<"0">>
S_user_    == <<"u","s","e","r","_">>
S_TRUE     == <<"T","R","U","E">>
S_test_at  == <<"t","e","s","t","@">>
S_vg_at    == <<"v","g","@">>
S_upwork   == <<"u","p","w","o","r","k">>
S_velocity == <<"v","e","l","o","c","i","t","y"," ","g","l","o","b","a","l",
                " ","-"," ","o","t","h","e","r">>
S_slash    == <<"/">>

----------------------------------------------------------------------------
(* ExternalContact.                                                        *)

\* row.get(key, default)
RowGet(row, key, default) == IF key \in DOMAIN row THEN row[key] ELSE default

\* A faulty variant of TicketsText: a missing Tickets field defaults to "".
TicketsText_NoDefault(row) == Strip(RowGet(row, "Tickets", S_empty))

\* row.get("Tickets", "0").strip()
TicketsText(row) == Strip(RowGet(row, "Tickets", S_zero))

\* ExternalContact(row): raised is TRUE where __init__ raises (int() of the
\* Tickets text); oid is the identity of the new object.
ExternalContact(row, oid) ==
    LET t == python_int(TicketsText(row))
    IN  [raised |-> ~t.ok,
         contact |->
           [oid                 |-> oid,
            email               |-> Lower(Strip(RowGet(row, "Email", S_empty))),
            external_ref        |-> Strip(RowGet(row, "External Ref", S_empty)),
            modified_by         |-> Strip(RowGet(row, "Modified By Name", S_empty)),
            user_id             |-> Strip(RowGet(row, "User ID", S_empty)),
            type                |-> Strip(RowGet(row, "Type", S_empty)),
            display_id          |-> Strip(RowGet(row, "Display ID", S_empty)),
            devrev_account_id   |-> Strip(RowGet(row, "Devrev Account ID", S_empty)),
            devrev_account_name |-> Strip(RowGet(row, "Devrev Account Name", S_empty)),
            updated_at          |-> Strip(RowGet(row, "Updated At", S_empty)),
            cxp_user_id         |-> Upper(Strip(RowGet(row, "CXP User id", S_empty))),
            updated_by_bi       |-> Upper(Strip(RowGet(row, "Updated by BI service", S_empty))),
            linked_to_acc       |-> Strip(RowGet(row, "Linked to acc", S_empty)),
            tickets             |-> t.value,
            action              |-> Strip(RowGet(row, "Action", S_empty)),
            strategy            |-> Strip(RowGet(row, "Strategy", S_empty))]]

has_cxp_uid(c) == StartsWith(c.external_ref, S_user_)

updated_by_bi_service(c) == c.updated_by_bi = S_TRUE

to_dict(c) ==
    [email               |-> c.email,
     external_ref        |-> c.external_ref,
     user_id             |-> c.user_id,
     devrev_account_id   |-> c.devrev_account_id,
     devrev_account_name |-> c.devrev_account_name,
     tickets             |-> c.tickets,
     modified_by         |-> c.modified_by,
     updated_at          |-> c.updated_at,
     type                |-> c.type,
     linked_to_acc       |-> c.linked_to_acc]

\* A faulty variant of ContactNe: comparison by field values, as a dataclass-style
\* __eq__ would make it.
ContactNe_ByValue(c, primary) == [c EXCEPT !.oid = 0] # [primary EXCEPT !.oid = 0]

\* The default object comparison c != primary: ExternalContact defines no
\* __eq__, so two objects are equal only when they are the same object.
ContactNe(c, primary) == c.oid # primary.oid

----------------------------------------------------------------------------
(* load_contacts.                                                          *)

\* The filter at the head of the loop body.
IsFiltered(row) ==
    LET email == Lower(Strip(RowGet(row, "Email", S_empty)))
    IN  Contains(email, S_test_at) \/ Contains(email, S_vg_at)

\* One iteration of the loop over the reader, on row i: the state after it.
LoadRow(rs, i, st) ==
    IF IsFiltered(rs[i]) THEN st
    ELSE LET made == ExternalContact(rs[i], i)
         IN  IF made.raised
             THEN [st EXCEPT !.errors = @ \cup {i}]
             ELSE [st EXCEPT !.contacts = Append(@, made.contact)]

RECURSIVE LoadFrom(_, _, _)
LoadFrom(rs, i, st) ==
    IF i > Len(rs) THEN st ELSE LoadFrom(rs, i + 1, LoadRow(rs, i, st))

load_contacts(rs) == LoadFrom(rs, 1, [contacts |-> <<>>, errors |-> {}])

----------------------------------------------------------------------------
(* Grouping.  A defaultdict(list) keeps its keys in insertion order: it is  *)
(* modelled as the sequence of its value lists, in first-occurrence order  *)
(* of their keys.                                                          *)

RECURSIVE KeysInOrder(_, _)
\* The distinct values of seq, in the order they first occur after `seen`.
KeysInOrder(keys, seen) ==
    IF keys = <<>> THEN seen
    ELSE IF \E j \in 1..Len(seen) : seen[j] = Head(keys)
         THEN KeysInOrder(Tail(keys), seen)
         ELSE KeysInOrder(Tail(keys), Append(seen, Head(keys)))

group_contacts_by_email(cs) ==
    LET ks == KeysInOrder([i \in 1..Len(cs) |-> cs[i].email], <<>>)
    IN  [k \in 1..Len(ks) |-> SelectSeq(cs, LAMBDA c : c.email = ks[k])]

\* A faulty variant of account_groups: the email group is not split by account.
account_groups_Unsplit(group) == <<group>>

\* account_groups of choose_primary_contact
account_groups(group) ==
    LET ks == KeysInOrder([i \in 1..Len(group) |-> group[i].devrev_account_id], <<>>)
    IN  [k \in 1..Len(ks) |-> SelectSeq(group, LAMBDA c : c.devrev_account_id = ks[k])]

----------------------------------------------------------------------------
(* choose_primary_contact.                                                 *)

NoContact == [oid |-> 0]

\* A faulty variant of KeyLess: the ticket count compared first.
KeyLess_TicketsFirst(a, b) ==
    \/ a.tickets < b.tickets
    \/ /\ a.tickets = b.tickets
       /\ ~updated_by_bi_service(a) /\ updated_by_bi_service(b)

\* The sort key (c.updated_by_bi_service(), c.tickets) compared as Python
\* compares tuples: first components first, False < True.
KeyLess(a, b) ==
    \/ ~updated_by_bi_service(a) /\ updated_by_bi_service(b)
    \/ /\ updated_by_bi_service(a) = updated_by_bi_service(b)
       /\ a.tickets < b.tickets

\* sorted(..., reverse=True) is stable: x, met after the elements of `done`,
\* goes behind every element whose key is not less than its own.
InsertDescending(done, x) ==
    LET k == Cardinality({i \in 1..Len(done) : ~KeyLess(done[i], x)})
    IN  SubSeq(done, 1, k) \o <<x>> \o SubSeq(done, k + 1, Len(done))

RECURSIVE SortedDescending(_, _)
SortedDescending(todo, done) ==
    IF todo = <<>> THEN done
    ELSE SortedDescending(Tail(todo), InsertDescending(done, Head(todo)))

RECURSIVE MaxByTickets(_, _)
\* max(contacts_in_acc, key=lambda c: c.tickets): the first maximal element.
MaxByTickets(todo, best) ==
    IF todo = <<>> THEN best
    ELSE MaxByTickets(Tail(todo),
                      IF Head(todo).tickets > best.tickets THEN Head(todo) ELSE best)

\* Stages A and B: the CXP-UID rule and the BI-service / ticket tie-break.
StageAB(contacts_in_acc) ==
    LET cxp_contacts == SelectSeq(contacts_in_acc, has_cxp_uid)
    IN  IF Len(cxp_contacts) = 1 THEN cxp_contacts[1]
        ELSE IF Len(cxp_contacts) > 1
             THEN SortedDescending(cxp_contacts, <<>>)[1]
             ELSE MaxByTickets(Tail(contacts_in_acc), Head(contacts_in_acc))

\* A faulty variant of UpworkOverride: the last Upwork reference wins, not the first.
UpworkOverride_Last(contacts_in_acc, primary) ==
    IF \E i \in 1..Len(contacts_in_acc) :
           Contains(Lower(contacts_in_acc[i].type), S_upwork)
    THEN LET specific == SelectSeq(contacts_in_acc,
                             LAMBDA c : Contains(Lower(c.external_ref), S_upwork))
         IN  IF specific # <<>> THEN specific[Len(specific)] ELSE primary
    ELSE primary

\* Stage C: the Upwork override.
UpworkOverride(contacts_in_acc, primary) ==
    IF \E i \in 1..Len(contacts_in_acc) :
           Contains(Lower(contacts_in_acc[i].type), S_upwork)
    THEN LET specific == SelectSeq(contacts_in_acc,
                             LAMBDA c : Contains(Lower(c.external_ref), S_upwork))
         IN  IF specific # <<>> THEN specific[1] ELSE primary
    ELSE primary

\* Stage D: the Velocity-Global-Other override.
VelocityOverride(contacts_in_acc, primary) ==
    IF \E i \in 1..Len(contacts_in_acc) :
           Contains(Lower(contacts_in_acc[i].devrev_account_name), S_velocity)
    THEN LET real_accounts == SelectSeq(contacts_in_acc,
                                  LAMBDA c : c.external_ref = c.user_id)
         IN  IF real_accounts # <<>> THEN real_accounts[1] ELSE primary
    ELSE primary

\* A faulty variant of PrimaryInAccount: the two overrides applied in the other order.
PrimaryInAccount_UpworkLast(contacts_in_acc) ==
    UpworkOverride(contacts_in_acc,
                   VelocityOverride(contacts_in_acc, StageAB(contacts_in_acc)))

\* The primary of one account group of at least two contacts.
PrimaryInAccount(contacts_in_acc) ==
    VelocityOverride(contacts_in_acc,
                     UpworkOverride(contacts_in_acc, StageAB(contacts_in_acc)))

\* A faulty variant of Duplicates: the primary is not taken out.
Duplicates_All(contacts_in_acc, primary) == contacts_in_acc

\* duplicates = [c for c in contacts_in_acc if c != primary]
Duplicates(contacts_in_acc, primary) ==
    SelectSeq(contacts_in_acc, LAMBDA c : ContactNe(c, primary))

\* One iteration of the loop over account_groups.items(): the state
\* (primary, merge_candidates) after it.
AccountStep(contacts_in_acc, st) ==
    IF Len(contacts_in_acc) < 2 THEN st
    ELSE LET primary    == PrimaryInAccount(contacts_in_acc)
             duplicates == Duplicates(contacts_in_acc, primary)
         IN  [primary |-> primary,
              merge_candidates |->
                  st.merge_candidates \o
                  [i \in 1..Len(duplicates) |-> <<primary, duplicates[i]>>]]

RECURSIVE AccountLoop(_, _, _)
AccountLoop(groups, k, st) ==
    IF k > Len(groups) THEN st
    ELSE AccountLoop(groups, k + 1, AccountStep(groups[k], st))

choose_primary_contact(group) ==
    IF Len(group) < 2
    THEN [primary |-> NoContact, merge_candidates |-> <<>>]
    ELSE AccountLoop(account_groups(group), 1,
                     [primary |-> NoContact, merge_candidates |-> <<>>])

----------------------------------------------------------------------------
(* dedupe_contacts: the merge plan.                                        *)

RECURSIVE EmailLoop(_, _, _)
EmailLoop(groups, k, plan) ==
    IF k > Len(groups) THEN plan
    ELSE EmailLoop(groups, k + 1,
                   IF Len(groups[k]) < 2 THEN plan
                   ELSE plan \o choose_primary_contact(groups[k]).merge_candidates)

\* merge_actions as built by the first loop of dedupe_contacts.
MergePlan(cs) == EmailLoop(group_contacts_by_email(cs), 1, <<>>)

----------------------------------------------------------------------------
(* The execution layer of dedupe_contacts.                                 *)

\* What requests.post(...) followed by raise_for_status() can do.
APIOutcomes == {"ok", "http_error", "request_exception"}

\* backup_contact(contact) when the request ends as `api`: "true" and "false"
\* are its return values (DEVREV_BASE_URL is taken to be set).  After a good response the JSON is written to
\* backups/backup_<user_id>_<timestamp>.json; only backups/ is created, so
\* open() raises FileNotFoundError when user_id holds a "/", and no except
\* clause of backup_contact or of its callers catches it: "raised".
backup_contact(contact, api) ==
    IF api # "ok" THEN "false"
    ELSE IF Contains(contact.user_id, S_slash) THEN "raised"
    ELSE "true"

\* perform_merge(primary, duplicate) when the request ends as `api`.
perform_merge(primary, duplicate, api) ==
    IF api = "ok" THEN "true" ELSE "false"

NoReport == [written |-> FALSE, total_merge_actions |-> 0, merge_actions |-> <<>>]

\* The report dict that save_merge_report dumps (its timestamp left out).
save_merge_report(actions) ==
    [written |-> TRUE,
     total_merge_actions |-> Len(actions),
     merge_actions |-> [i \in 1..Len(actions) |->
                          [primary   |-> to_dict(actions[i][1]),
                           duplicate |-> to_dict(actions[i][2])]]]

NoRun == [ran |-> FALSE, dry_run |-> FALSE, merge_actions |-> <<>>]

----------------------------------------------------------------------------
(* Actions.                                                                *)

\* main: contacts = load_contacts(args.csv)
LoadContacts ==
    /\ pc = "load"
    /\ LET loaded == load_contacts(rows)
       IN  /\ contacts' = loaded.contacts
           /\ errors' = loaded.errors
    /\ pc' = "dedupe"
    /\ UNCHANGED <<rows, dry_run, merge_actions, pair_idx, step, calls, report, prev>>

\* dedupe_contacts, up to "Identified n merge actions."
BuildPlan ==
    /\ pc = "dedupe"
    /\ merge_actions' = MergePlan(contacts)
    /\ pair_idx' = 1
    /\ step' = "primary"
    /\ pc' = "exec"
    /\ UNCHANGED <<rows, dry_run, contacts, errors, calls, report, prev>>

InLoop == pc = "exec" /\ pair_idx <= Len(merge_actions)

Call(op, pair, a, b, result) ==
    [op |-> op, pair |-> pair, contact |-> a, other |-> b, result |-> result]

\* A faulty variant of DryRunPair: the primary is backed up although dry_run is set.
DryRunPair_BacksUp ==
    /\ InLoop
    /\ dry_run
    /\ calls' = Append(calls, Call("backup", pair_idx, merge_actions[pair_idx][1].oid,
                                   0, "true"))
    /\ pair_idx' = pair_idx + 1
    /\ UNCHANGED <<rows, dry_run, pc, contacts, errors, merge_actions, step,
                   report, prev>>

\* One iteration of the second loop with dry_run set: it only logs.
DryRunPair ==
    /\ InLoop
    /\ dry_run
    /\ pair_idx' = pair_idx + 1
    /\ UNCHANGED <<rows, dry_run, pc, contacts, errors, merge_actions, step, calls,
                   report, prev>>

\* if not backup_contact(primary): ... continue
BackupPrimary ==
    /\ InLoop
    /\ ~dry_run
    /\ step = "primary"
    /\ \E api \in APIOutcomes :
         LET primary == merge_actions[pair_idx][1]
             r       == backup_contact(primary, api)
         IN  /\ calls' = Append(calls, Call("backup", pair_idx, primary.oid, 0, r))
             /\ pc' = IF r = "raised" THEN "crashed" ELSE pc
             /\ step' = IF r = "true" THEN "duplicate" ELSE step
             /\ pair_idx' = IF r = "false" THEN pair_idx + 1 ELSE pair_idx
    /\ UNCHANGED <<rows, dry_run, contacts, errors, merge_actions, report, prev>>

\* if not backup_contact(duplicate): ... continue
BackupDuplicate ==
    /\ InLoop
    /\ ~dry_run
    /\ step = "duplicate"
    /\ \E api \in APIOutcomes :
         LET duplicate == merge_actions[pair_idx][2]
             r         == backup_contact(duplicate, api)
         IN  /\ calls' = Append(calls, Call("backup", pair_idx, duplicate.oid, 0, r))
             /\ pc' = IF r = "raised" THEN "crashed" ELSE pc
             /\ step' = IF r = "true" THEN "merge" ELSE IF r = "false" THEN "primary" ELSE step
             /\ pair_idx' = IF r = "false" THEN pair_idx + 1 ELSE pair_idx
    /\ UNCHANGED <<rows, dry_run, contacts, errors, merge_actions, report, prev>>

\* success = perform_merge(primary, duplicate)
PerformMerge ==
    /\ InLoop
    /\ ~dry_run
    /\ step = "merge"
    /\ \E api \in APIOutcomes :
         LET primary   == merge_actions[pair_idx][1]
             duplicate == merge_actions[pair_idx][2]
             r         == perform_merge(primary, duplicate, api)
         IN  calls' = Append(calls, Call("merge", pair_idx, primary.oid, duplicate.oid, r))
    /\ step' = "primary"
    /\ pair_idx' = pair_idx + 1
    /\ UNCHANGED <<rows, dry_run, pc, contacts, errors, merge_actions, report, prev>>

\* save_merge_report(merge_actions), then main's "Dedupe process completed."
SaveReport ==
    /\ pc = "exec"
    /\ pair_idx > Len(merge_actions)
    /\ report' = save_merge_report(merge_actions)
    /\ pc' = "done"
    /\ UNCHANGED <<rows, dry_run, contacts, errors, merge_actions, pair_idx, step,
                   calls, prev>>

\* main() run again on the same CSV without --dry-run, after a dry run.
Rerun ==
    /\ pc = "done"
    /\ dry_run
    /\ ~prev.ran
    /\ prev' = [ran |-> TRUE, dry_run |-> dry_run, merge_actions |-> merge_actions]
    /\ dry_run' = FALSE
    /\ pc' = "load"
    /\ contacts' = <<>>
    /\ errors' = {}
    /\ merge_actions' = <<>>
    /\ pair_idx' = 1
    /\ step' = "primary"
    /\ calls' = <<>>
    /\ report' = NoReport
    /\ UNCHANGED rows

Next ==
    \/ LoadContacts
    \/ BuildPlan
    \/ DryRunPair
    \/ BackupPrimary
    \/ BackupDuplicate
    \/ PerformMerge
    \/ SaveReport
    \/ Rerun

\* The core alone: loading and building the plan.
NextPlan ==
    \/ LoadContacts
    \/ BuildPlan

----------------------------------------------------------------------------
(* Inputs.                                                                 *)

MaxRows == 3

EmptyRow == [k \in {} |-> <<>>]

Field(key, texts) == {key :> t : t \in texts}

OptionalField(key, texts) == {EmptyRow} \cup Field(key, texts)

Join(A, B) == {a @@ b : a \in A, b \in B}

RowLists(rowset, n) == UNION {[1..k -> rowset] : k \in 0..n}

Start(rs, d) ==
    /\ rows = rs
    /\ dry_run = d
    /\ pc = "load"
    /\ contacts = <<>>
    /\ errors = {}
    /\ merge_actions = <<>>
    /\ pair_idx = 1
    /\ step = "primary"
    /\ calls = <<>>
    /\ report = NoReport
    /\ prev = NoRun

T_a_at_b  == <<"a","@","b">>
T_acc_A   == <<"A">>
T_user_1  == <<"u","s","e","r","_","1">>
T_abc     == <<"a","b","c">>
T_u1      == <<"u","1">>
T_don     == <<"d","/","2">>

\* Rows of one email and one account, with and without a "/" in User ID.
ExecRows ==
    Join(Field("Email", {T_a_at_b}),
    Join(Field("Devrev Account ID", {T_acc_A}),
    Join(Field("External Ref", {T_user_1, T_abc}),
         Field("User ID", {T_u1, T_don}))))

Init == \E rs \in RowLists(ExecRows, MaxRows), d \in BOOLEAN : Start(rs, d)

Spec == Init /\ [][Next]_vars

----------------------------------------------------------------------------
(* Inputs of the core: only LoadContacts and BuildPlan run on them.        *)

MaxPlanRows == 4
MaxLoadRows == 2

T_c_at_d    == <<"c","@","d">>
T_acc_B     == <<"B">>
T_Upwork_j  == <<"U","p","w","o","r","k","_","j">>
T_Upwork    == <<"U","p","w","o","r","k">>
T_UpWork    == <<"U","p","W","o","r","k">>
T_Upwork_Specific ==
    <<"U","p","w","o","r","k"," ","S","p","e","c","i","f","i","c">>
T_generic_upwork_acct ==
    <<"g","e","n","e","r","i","c","_","u","p","w","o","r","k","_","a","c","c","t">>
T_upwork_jsmith ==
    <<"u","p","w","o","r","k","_","j","s","m","i","t","h">>
T_Acme      == <<"A","c","m","e">>
T_Velocity  == <<"V","e","l","o","c","i","t","y"," ","G","l","o","b","a","l",
                 " ","-"," ","O","T","H","E","R">>
T_true      == <<"t","r","u","e">>
T_FALSE     == <<"F","A","L","S","E">>
T_2         == <<"2">>
T_50        == <<"5","0">>
T_3         == <<"3">>
T_sp2sp     == <<" ","2"," ">>
T_x         == <<"x">>
T_minus1    == <<"-","1">>
T_Ann       == <<" ","A","n","n","@","x"," ">>
T_ann       == <<"a","n","n","@","x">>
T_conTEST   == <<"c","o","n","T","E","S","T","@","x">>
T_VG        == <<"V","G","@","y">>

\* Two emails, two accounts, CXP and plain references: rows with equal
\* values in every field occur.
PlanRows ==
    Join(Field("Email", {T_a_at_b, T_c_at_d}),
    Join(Field("Devrev Account ID", {T_acc_A, T_acc_B}),
         Field("External Ref", {T_user_1, T_abc})))

InitPlan == \E rs \in RowLists(PlanRows, MaxPlanRows) : Start(rs, TRUE)

SpecPlan == InitPlan /\ [][NextPlan]_vars

\* One email, every Type "Upwork": Stages A and B decide unless a row with
\* an Upwork reference (unflagged, 2 tickets) is in the sub-group.
StageABRows ==
    Join(Field("Email", {T_a_at_b}),
    Join(Field("Type", {T_Upwork}),
    Join(Field("Devrev Account ID", {T_acc_A, T_acc_B}),
         Join(Field("External Ref", {T_user_1, T_abc}),
         Join(Field("Updated by BI service", {T_true, T_FALSE}),
              Field("Tickets", {T_2, T_50})))
         \cup
         Join(Field("External Ref", {T_Upwork_j}),
         Join(Field("Updated by BI service", {T_FALSE}),
              Field("Tickets", {T_2}))))))

InitStageAB == \E rs \in RowLists(StageABRows, MaxRows) : Start(rs, TRUE)

SpecStageAB == InitStageAB /\ [][NextPlan]_vars

\* One email; every row has User ID "abc", so a row of External Ref "abc"
\* is a "real account" row.  A row has an Upwork type or a
\* Velocity-Global-Other account name or neither.
OverrideRows ==
    Join(Field("Email", {T_a_at_b}),
    Join(Field("User ID", {T_abc}),
    Join(Field("Devrev Account ID", {T_acc_A, T_acc_B}),
    Join(Field("External Ref", {T_user_1, T_abc, T_Upwork_j}),
         Join(Field("Type", {S_empty, T_UpWork}),
              Field("Devrev Account Name", {T_Acme}))
         \cup
         Join(Field("Type", {S_empty}),
              Field("Devrev Account Name", {T_Velocity}))))))

InitOverride == \E rs \in RowLists(OverrideRows, MaxRows) : Start(rs, TRUE)

SpecOverride == InitOverride /\ [][NextPlan]_vars

\* Scenario 3 of the specification, for any two ticket counts and BI flags.
DigitTexts == {<<d>> : d \in DOMAIN DigitValue}

Scenario3Row(type, ref) ==
    Join(Field("Email", {T_a_at_b}),
    Join(Field("Devrev Account ID", {T_acc_A}),
    Join(Field("Type", {type}),
    Join(Field("External Ref", {ref}),
    Join(Field("Updated by BI service", {T_true, T_FALSE}),
         Field("Tickets", DigitTexts))))))

InitScenario3 ==
    \E r1 \in Scenario3Row(T_Upwork, T_generic_upwork_acct),
       r2 \in Scenario3Row(T_Upwork_Specific, T_upwork_jsmith) :
        Start(<<r1, r2>>, TRUE)

SpecScenario3 == InitScenario3 /\ [][NextPlan]_vars

\* Raw Email and Tickets texts, present or missing; every other header is
\* missing from the row.
EmailTexts == {T_Ann, T_ann, T_conTEST, T_VG, S_empty}
TicketTexts == {T_3, T_sp2sp, T_minus1, T_x, S_empty}

LoadRows ==
    Join(OptionalField("Email", EmailTexts), OptionalField("Tickets", TicketTexts))

InitLoad == \E rs \in RowLists(LoadRows, MaxLoadRows) : Start(rs, TRUE)

SpecLoad == InitLoad /\ [][NextPlan]_vars

----------------------------------------------------------------------------
(* Properties.  The groups are stated here from the set of loaded contacts, *)
(* not through the program's grouping.                                     *)

PlanBuilt == pc \in {"exec", "done", "crashed"}

ContactSet == {contacts[i] : i \in 1..Len(contacts)}

PairIdx == 1..Len(merge_actions)

PrimaryOf(i) == merge_actions[i][1]

DuplicateOf(i) == merge_actions[i][2]

Oids(S) == {c.oid : c \in S}

\* The account-sub-group of c: the records sharing its email and account.
SubGroup(c) ==
    {d \in ContactSet : d.email = c.email /\ d.devrev_account_id = c.devrev_account_id}

\* The records sharing c's email.
EmailGroup(c) == {d \in ContactSet : d.email = c.email}

SameValues(c, d) == [c EXCEPT !.oid = 0] = [d EXCEPT !.oid = 0]

\* C1: in every account-sub-group of at least two records, all the pairs of
\* the sub-group carry one primary, a member of the sub-group, which is the
\* duplicate of no pair, and every other member is the duplicate of exactly
\* one pair; records are told apart by identity, not by their values.
C1_OnePrimaryPerSubGroup ==
    PlanBuilt =>
      /\ \A i \in PairIdx : PrimaryOf(i) \in ContactSet /\ DuplicateOf(i) \in ContactSet
      /\ \A c \in ContactSet :
           LET sg == SubGroup(c) IN
           Cardinality(sg) >= 2 =>
             \E p \in sg :
               /\ \A i \in PairIdx :
                    (PrimaryOf(i).oid \in Oids(sg) \/ DuplicateOf(i).oid \in Oids(sg))
                        => PrimaryOf(i).oid = p.oid
               /\ \A i \in PairIdx : DuplicateOf(i).oid # p.oid
               /\ \A d \in sg \ {p} :
                    Cardinality({i \in PairIdx : DuplicateOf(i).oid = d.oid}) = 1

\* A sub-group of three in which a duplicate has the very values of its primary.
C1_Witness ==
    /\ PlanBuilt
    /\ \E i \in PairIdx :
         /\ SameValues(PrimaryOf(i), DuplicateOf(i))
         /\ Cardinality(SubGroup(PrimaryOf(i))) >= 3

\* C5: every pair joins two records of one email and one account; a record
\* alone in its account-sub-group is in no pair; an email group whose
\* records all differ in account gives no pair.
C5_NoCrossAccountMerge ==
    PlanBuilt =>
      /\ \A i \in PairIdx :
           /\ PrimaryOf(i).email = DuplicateOf(i).email
           /\ PrimaryOf(i).devrev_account_id = DuplicateOf(i).devrev_account_id
      /\ \A c \in ContactSet :
           SubGroup(c) = {c} =>
             \A i \in PairIdx : PrimaryOf(i).oid # c.oid /\ DuplicateOf(i).oid # c.oid
      /\ \A c \in ContactSet :
           (\A d, e \in EmailGroup(c) :
                d.oid # e.oid => d.devrev_account_id # e.devrev_account_id)
             => \A i \in PairIdx :
                  PrimaryOf(i).email # c.email /\ DuplicateOf(i).email # c.email

\* An email shared by a merged sub-group and a record alone in another
\* account: the plan leaves that record out.
C5_Witness ==
    /\ PlanBuilt
    /\ \E i \in PairIdx, d \in ContactSet :
         /\ d.email = PrimaryOf(i).email
         /\ d.devrev_account_id # PrimaryOf(i).devrev_account_id
         /\ SubGroup(d) = {d}

\* C10: over the whole plan no record is the duplicate of two pairs, and no
\* duplicate of a pair is the primary of a pair.
C10_NoMergeChains ==
    PlanBuilt =>
      \A i, j \in PairIdx :
        /\ i # j => DuplicateOf(i).oid # DuplicateOf(j).oid
        /\ DuplicateOf(i).oid # PrimaryOf(j).oid

\* A plan whose pairs come from two sub-groups.
C10_Witness ==
    /\ PlanBuilt
    /\ \E i, j \in PairIdx : PrimaryOf(i).oid # PrimaryOf(j).oid
    /\ Len(merge_actions) >= 2

\* The primaries that the plan gives the members of sub-group sg.
PrimaryOidsOf(sg) ==
    {PrimaryOf(i).oid : i \in {j \in PairIdx : DuplicateOf(j).oid \in Oids(sg)}}

\* The member of S that comes first in group order.
First(S) == CHOOSE c \in S : \A d \in S : c.oid <= d.oid

UpworkTyped(sg) == \E c \in sg : Contains(Lower(c.type), S_upwork)

UpworkRefs(sg) == {c \in sg : Contains(Lower(c.external_ref), S_upwork)}

VelocityNamed(sg) == \E c \in sg : Contains(Lower(c.devrev_account_name), S_velocity)

RealAccounts(sg) == {c \in sg : c.external_ref = c.user_id}

StageCFires(sg) == UpworkTyped(sg) /\ UpworkRefs(sg) # {}

StageDFires(sg) == VelocityNamed(sg) /\ RealAccounts(sg) # {}

CxpOf(sg) == {c \in sg : StartsWith(c.external_ref, S_user_)}

BiFlag(c) == c.updated_by_bi = S_TRUE

\* C3: where neither override fires, a sole CXP record is the primary; of
\* several CXP records the primary is one whose (BI flag, tickets) key no
\* other CXP record exceeds, the flag compared first; with no CXP record it
\* is the first record holding the highest ticket count.
C3_StageAB ==
    PlanBuilt =>
      \A c \in ContactSet :
        LET sg  == SubGroup(c)
            cxp == CxpOf(sg)
        IN  (Cardinality(sg) >= 2 /\ ~StageCFires(sg) /\ ~StageDFires(sg)) =>
              \E p \in sg :
                /\ PrimaryOidsOf(sg) = {p.oid}
                /\ Cardinality(cxp) = 1 => p \in cxp
                /\ Cardinality(cxp) >= 2 =>
                     /\ p \in cxp
                     /\ \A d \in cxp :
                          /\ BiFlag(d) => BiFlag(p)
                          /\ BiFlag(d) = BiFlag(p) => d.tickets <= p.tickets
                /\ cxp = {} =>
                     /\ \A d \in sg : d.tickets <= p.tickets
                     /\ \A d \in sg : d.tickets = p.tickets => p.oid <= d.oid

\* Three records of one account: a BI-flagged CXP record with fewer tickets
\* wins over an unflagged CXP record and over a plain record.
C3_Witness ==
    /\ PlanBuilt
    /\ \E i, j \in PairIdx :
         /\ PrimaryOf(i).oid = PrimaryOf(j).oid
         /\ ~StageCFires(SubGroup(PrimaryOf(i)))
         /\ BiFlag(PrimaryOf(i))
         /\ DuplicateOf(i) \in CxpOf(ContactSet)
         /\ ~BiFlag(DuplicateOf(i))
         /\ DuplicateOf(i).tickets > PrimaryOf(i).tickets
         /\ DuplicateOf(j) \notin CxpOf(ContactSet)
         /\ DuplicateOf(j).tickets > PrimaryOf(i).tickets
         /\ DuplicateOf(j).oid < PrimaryOf(i).oid

\* C2: in every account-sub-group of at least two records, when a
\* Velocity-Global-Other name and a record with externalRef = userId are
\* present the primary is the first such record; otherwise, when an Upwork
\* type and an Upwork reference are present, it is the first record with an
\* Upwork reference.
C2_OverrideOrder ==
    PlanBuilt =>
      \A c \in ContactSet :
        LET sg == SubGroup(c)
        IN  Cardinality(sg) >= 2 =>
              /\ StageDFires(sg) =>
                   PrimaryOidsOf(sg) = {First(RealAccounts(sg)).oid}
              /\ (~StageDFires(sg) /\ StageCFires(sg)) =>
                   PrimaryOidsOf(sg) = {First(UpworkRefs(sg)).oid}

\* A sub-group with a CXP record first, then an Upwork reference, then a
\* real-account record, under a Velocity-Global-Other name: the last wins.
C2_Witness ==
    /\ PlanBuilt
    /\ \E c \in ContactSet :
         LET sg == SubGroup(c)
         IN  /\ Cardinality(sg) = 3
             /\ StageDFires(sg)
             /\ StageCFires(sg)
             /\ CxpOf(sg) # {}
             /\ First(CxpOf(sg)).oid < First(UpworkRefs(sg)).oid
             /\ First(UpworkRefs(sg)).oid < First(RealAccounts(sg)).oid
             /\ PrimaryOidsOf(sg) = {First(RealAccounts(sg)).oid}

\* C4, as the code has it: in Scenario 3 both external references contain
\* "upwork", so R1, the first of them, is the primary and the one pair is
\* (R1, R2), whatever the ticket counts.
C4_Scenario3_FirstUpworkRef ==
    PlanBuilt =>
      /\ Len(merge_actions) = 1
      /\ PrimaryOf(1).oid = 1
      /\ DuplicateOf(1).oid = 2
      /\ PrimaryOf(1).external_ref = T_generic_upwork_acct
      /\ DuplicateOf(1).external_ref = T_upwork_jsmith

\* C4 as claimed: R2, the Upwork-specific record, is the primary and the
\* one pair is (R2, R1).
C4_Scenario3_AsClaimed ==
    PlanBuilt =>
      /\ Len(merge_actions) = 1
      /\ PrimaryOf(1).oid = 2
      /\ DuplicateOf(1).oid = 1

\* Scenario 3 with R2 holding more tickets than R1: R1 is still the primary.
C4_Witness ==
    /\ PlanBuilt
    /\ Len(contacts) = 2
    /\ contacts[1].type = T_Upwork
    /\ contacts[2].type = T_Upwork_Specific
    /\ ~has_cxp_uid(contacts[1]) /\ ~has_cxp_uid(contacts[2])
    /\ contacts[2].tickets > contacts[1].tickets
    /\ Len(merge_actions) = 1
    /\ PrimaryOf(1) = contacts[1]

\* What Python makes of the raw texts of LoadRows: the emails that hold
\* "test@" or "vg@" once trimmed and lowercased, and the Tickets texts that
\* int() accepts, with their values.
PlaceholderEmailTexts == {T_conTEST, T_VG}

TicketValueOf == (T_3 :> 3) @@ (T_sp2sp :> 2) @@ (T_minus1 :> (0 - 1))

RowFiltered(r) == "Email" \in DOMAIN r /\ r["Email"] \in PlaceholderEmailTexts

RowCoercible(r) == "Tickets" \notin DOMAIN r \/ r["Tickets"] \in DOMAIN TicketValueOf

\* The str fields of a contact with the header each is read from.
StrFields ==
    {<<"Email", "email">>, <<"External Ref", "external_ref">>,
     <<"Modified By Name", "modified_by">>, <<"User ID", "user_id">>,
     <<"Type", "type">>, <<"Display ID", "display_id">>,
     <<"Devrev Account ID", "devrev_account_id">>,
     <<"Devrev Account Name", "devrev_account_name">>,
     <<"Updated At", "updated_at">>, <<"CXP User id", "cxp_user_id">>,
     <<"Updated by BI service", "updated_by_bi">>,
     <<"Linked to acc", "linked_to_acc">>, <<"Action", "action">>,
     <<"Strategy", "strategy">>}

\* C9: load_contacts returns, in input order, exactly the records of the
\* rows that are not filtered and whose Tickets text is an integer or is
\* missing; a row that cannot be coerced is logged and skipped, whatever
\* comes before or after it; a missing field reads as "" and missing
\* Tickets as 0.
C9_RowParseFailureIsLocal ==
    pc # "load" =>
      LET kept == {i \in 1..Len(rows) : ~RowFiltered(rows[i]) /\ RowCoercible(rows[i])}
      IN  /\ Oids(ContactSet) = kept
          /\ Len(contacts) = Cardinality(kept)
          /\ \A a, b \in 1..Len(contacts) : a < b => contacts[a].oid < contacts[b].oid
          /\ errors = {i \in 1..Len(rows) : ~RowFiltered(rows[i]) /\ ~RowCoercible(rows[i])}
          /\ \A a \in 1..Len(contacts) :
               LET c == contacts[a]
                   r == rows[c.oid]
               IN  /\ c.tickets = IF "Tickets" \in DOMAIN r
                                  THEN TicketValueOf[r["Tickets"]] ELSE 0
                   /\ \A hf \in StrFields : hf[1] \notin DOMAIN r => c[hf[2]] = <<>>

\* A row with a non-numeric or empty Tickets text, skipped, followed by a
\* row without Tickets, loaded with zero tickets.
C9_Witness ==
    /\ pc # "load"
    /\ Len(rows) = 2
    /\ "Tickets" \in DOMAIN rows[1] /\ rows[1]["Tickets"] \in {T_x, S_empty}
    /\ "Tickets" \notin DOMAIN rows[2]
    /\ errors = {1}
    /\ Len(contacts) = 1
    /\ contacts[1].oid = 2
    /\ contacts[1].tickets = 0

C8_NoPlaceholderEmail ==
    pc # "load" =>
      \A c \in ContactSet \cup {PrimaryOf(i) : i \in PairIdx}
                          \cup {DuplicateOf(i) : i \in PairIdx} :
        ~Contains(c.email, S_test_at) /\ ~Contains(c.email, S_vg_at)

C8_NonEmptyEmail ==
    pc # "load" =>
      \A c \in ContactSet \cup {PrimaryOf(i) : i \in PairIdx}
                          \cup {DuplicateOf(i) : i \in PairIdx} :
        c.email # <<>>

\* C8: every record that load_contacts returns, and so every record of a
\* merge pair, has a non-empty normalized email that holds neither "test@"
\* nor "vg@".
C8_EmailInvariant == C8_NonEmptyEmail /\ C8_NoPlaceholderEmail

CallIdx == 1..Len(calls)

\* A merge request follows the good backups of its primary and duplicate.
C6_MergeOnlyAfterBackups ==
    \A m \in CallIdx :
      calls[m].op = "merge" =>
        LET k == calls[m].pair
        IN  /\ m >= 3
            /\ calls[m].contact = PrimaryOf(k).oid
            /\ calls[m].other = DuplicateOf(k).oid
            /\ calls[m - 2] = Call("backup", k, PrimaryOf(k).oid, 0, "true")
            /\ calls[m - 1] = Call("backup", k, DuplicateOf(k).oid, 0, "true")

\* After a failed backup the pair gets no merge request, and after a failed
\* backup of the primary no backup of the duplicate.
C6_FailedBackupSkipsPair ==
    \A b \in CallIdx :
      (calls[b].op = "backup" /\ calls[b].result = "false") =>
        LET k == calls[b].pair
        IN  /\ \A m \in CallIdx : calls[m].pair = k => calls[m].op # "merge"
            /\ calls[b].contact = PrimaryOf(k).oid =>
                 {m \in CallIdx : calls[m].pair = k} = {b}

\* Pairs are taken in plan order and no call is made twice.
C6_PlanOrderNoRetry ==
    \A m, n \in CallIdx :
      m < n =>
        /\ calls[m].pair <= calls[n].pair
        /\ ~(calls[m].pair = calls[n].pair /\ calls[m].op = calls[n].op
             /\ calls[m].contact = calls[n].contact)

\* A run that has ended has gone through every pair and written the report.
C6_RunReachesReport ==
    pc \in {"done", "crashed"} =>
      /\ pair_idx = Len(merge_actions) + 1
      /\ report.written
      /\ ~dry_run => \A k \in PairIdx : \E m \in CallIdx : calls[m].pair = k

\* C6: without dry_run, a pair is merged only after both its backups
\* succeeded, a failed backup skips the pair, and whatever a backup or merge
\* call does, the later pairs are processed in order and the report is
\* written, with no retry.
C6_FailureIsolation ==
    /\ C6_MergeOnlyAfterBackups
    /\ C6_FailedBackupSkipsPair
    /\ C6_PlanOrderNoRetry
    /\ C6_RunReachesReport

\* C7: a run without dry_run builds the plan the dry run built from the
\* same rows; a dry run makes no backup and no merge call; its report lists
\* every pair of the plan and the plan's length.
C7_DryRunGating ==
    /\ (prev.ran /\ PlanBuilt) =>
         /\ prev.dry_run /\ ~dry_run
         /\ merge_actions = prev.merge_actions
    /\ dry_run => calls = <<>>
    /\ (dry_run /\ pc = "done") =>
         /\ report.written
         /\ report.total_merge_actions = Len(merge_actions)
         /\ Len(report.merge_actions) = Len(merge_actions)
         /\ \A i \in PairIdx :
              /\ report.merge_actions[i].primary = to_dict(PrimaryOf(i))
              /\ report.merge_actions[i].duplicate = to_dict(DuplicateOf(i))

\* After a dry run of a plan of two pairs, the run without dry_run has the
\* same two pairs and has merged the second.
C7_Witness ==
    /\ prev.ran
    /\ pc = "done"
    /\ Len(prev.merge_actions) = 2
    /\ \E m \in CallIdx : calls[m].op = "merge" /\ calls[m].pair = 2

====
